---- MODULE Spec2Model ----
(***************************************************************************)
(* State-machine model of src/app.py: the job board's two flat files       *)
(* (joblisting.csv, subscribers.csv), the admin session flag, and the      *)
(* request handlers that load, mutate and save the files.                  *)
(*                                                                         *)
(* Text is modelled as sequences of one-character strings, so that         *)
(* strip(), lower(), the e-mail pattern and pandas' CSV type inference     *)
(* are computed, not assumed.                                              *)
(***************************************************************************)
EXTENDS Integers, Sequences, FiniteSets, TLC

VARIABLES
    jobsFile,   \* rows of data/joblisting.csv, as written by to_csv
    subsFile,   \* rows of data/subscribers.csv, as written by to_csv
    session,    \* session[s]: the 'is_admin' flag of client s's session
    now,        \* the server clock read by datetime.now()
    proc,       \* proc[p]: the request worker p is handling, and its last response
    page,       \* the last page or download rendered by a read-only handler
    nextJid,    \* history: number of add-job requests that passed validation
    added,      \* history: ids of the jobs a successful save of add-job stored, in order
    deleted,    \* history: ids of the jobs removed by a saved delete
    lastAuth,   \* history: lastAuth[s], the most recent login/logout event of s
    okSince     \* history: okSince[s], a correct login was posted since s's last logout

vars == <<jobsFile, subsFile, session, now, proc, page, nextJid, added, deleted,
          lastAuth, okSince>>

-----------------------------------------------------------------------------
(* Bounds of the model *)

\* Add-job requests that pass validation
MaxAdds == 3
\* Ticks of the server clock
MaxClock == 1
\* Add-job requests in the specification of interleaved requests
MaxRaceAdds == 2
\* Add-job requests in the specification of logins and logouts
MaxAuthAdds == 1

Sessions == {"s1", "s2"}
Procs == {"p1", "p2"}

-----------------------------------------------------------------------------
(* Text helpers *)

UpperLetters == <<"A","B","C","D","E","F","G","H","I","J","K","L","M",
                  "N","O","P","Q","R","S","T","U","V","W","X","Y","Z">>
LowerLetters == <<"a","b","c","d","e","f","g","h","i","j","k","l","m",
                  "n","o","p","q","r","s","t","u","v","w","x","y","z">>
Digits == {"0","1","2","3","4","5","6","7","8","9"}

Range(s) == {s[i] : i \in DOMAIN s}
Letters == Range(UpperLetters) \cup Range(LowerLetters)

SetMin(S) == CHOOSE x \in S : \A y \in S : x <= y
SetMax(S) == CHOOSE x \in S : \A y \in S : x >= y

UpperSet == Range(UpperLetters)

LowerOf ==
    [c \in UpperSet |->
        LowerLetters[CHOOSE i \in DOMAIN UpperLetters : UpperLetters[i] = c]]

LowerChar(c) == IF c \in UpperSet THEN LowerOf[c] ELSE c

\* str.lower()
Lower(s) == [i \in DOMAIN s |-> LowerChar(s[i])]

\* str.strip(): leading and trailing blanks removed
Strip(s) ==
    LET keep == {i \in DOMAIN s : s[i] # " "}
    IN  IF keep = {} THEN <<>> ELSE SubSeq(s, SetMin(keep), SetMax(keep))

\* q occurs in s as a contiguous run, ignoring case (str.contains(q, case=False)
\* for a query without regular-expression metacharacters)
Contains(s, q) ==
    \E k \in 0..(Len(s) - Len(q)) :
        \A i \in 1..Len(q) : LowerChar(s[k + i]) = LowerChar(q[i])

-----------------------------------------------------------------------------
(* Configuration *)

ADMIN_USERNAME == <<"a","d","m","i","n">>
ADMIN_PASSWORD == <<"a","d","m","i","n","1","2","3">>

\* Columns of the jobs file that hold free text
JobTextCols == {"position", "company", "location", "skills", "salary", "link"}

-----------------------------------------------------------------------------
(* pandas CSV round trip: read_csv(...).fillna('') and to_csv *)

\* Cell texts read_csv takes as missing (members of its default na_values)
NaValues == { <<>>, <<"N","/","A">>, <<"N","A">>, <<"n","u","l","l">> }

IsIntStr(s) == Len(s) > 0 /\ \A i \in DOMAIN s : s[i] \in Digits

IsFloatStr(s) ==
    \E d \in DOMAIN s :
        /\ s[d] = "."
        /\ d > 1 /\ d < Len(s)
        /\ \A i \in DOMAIN s : i # d => s[i] \in Digits

\* str(int(s)): leading zeros dropped
IntRepr(s) ==
    LET nz == {i \in DOMAIN s : s[i] # "0"}
    IN  IF nz = {} THEN <<"0">> ELSE SubSeq(s, SetMin(nz), Len(s))

\* str(float(s)) for a plain decimal: "50" -> "50.0", "50.50" -> "50.5"
FloatRepr(s) ==
    IF IsIntStr(s) THEN IntRepr(s) \o <<".", "0">>
    ELSE LET d  == CHOOSE i \in DOMAIN s : s[i] = "."
             fr == SubSeq(s, d + 1, Len(s))
             nz == {i \in DOMAIN fr : fr[i] # "0"}
         IN  IntRepr(SubSeq(s, 1, d - 1)) \o <<".">> \o
             (IF nz = {} THEN <<"0">> ELSE SubSeq(fr, 1, SetMax(nz)))

\* The dtype read_csv infers for column c of the file
ColKind(file, c) ==
    LET cells == {file[i][c] : i \in DOMAIN file}
        vals  == cells \ NaValues
    IN  IF vals = {} THEN "na"
        ELSE IF \A v \in vals : IsIntStr(v)
             THEN (IF cells \cap NaValues = {} THEN "int" ELSE "float")
        ELSE IF \A v \in vals : IsIntStr(v) \/ IsFloatStr(v) THEN "float"
        ELSE "object"

\* One cell after read_csv and fillna(''), as to_csv would write it back
ParseCell(kind, s) ==
    IF s \in NaValues THEN <<>>
    ELSE IF kind = "int" THEN IntRepr(s)
    ELSE IF kind = "float" THEN FloatRepr(s)
    ELSE s

\* pd.read_csv(JOBLISTING_FILE).fillna(''); created_at goes through
\* pd.to_datetime, which gives back every timestamp the server wrote
ReadJobsCsv(file) ==
    LET kind == [c \in JobTextCols |-> ColKind(file, c)]
    IN  [i \in DOMAIN file |->
            [f \in DOMAIN file[i] |->
                IF f \in JobTextCols THEN ParseCell(kind[f], file[i][f])
                ELSE file[i][f]]]

\* load_jobs(): the parsed table, or an empty table when reading fails
load_jobs(file, readOk) == IF readOk THEN ReadJobsCsv(file) ELSE <<>>

\* pd.read_csv(SUBSCRIBERS_FILE).fillna(''): addresses and timestamps are text
\* that is neither numeric nor missing, is_active is read back as a boolean
load_subscribers(file, readOk) == IF readOk THEN file ELSE <<>>

\* to_csv that appends to the file instead of replacing it
save_jobs_appending(file, df, writeOk) == IF writeOk THEN file \o df ELSE file

\* save_jobs / save_subscribers: the file after df.to_csv, which either
\* replaces it or fails and leaves it
save_jobs(file, df, writeOk) == IF writeOk THEN df ELSE file

save_subscribers(file, df, writeOk) == IF writeOk THEN df ELSE file

-----------------------------------------------------------------------------
(* Requests and responses *)

\* A response: the flashed message (category, text) and where the client is sent
Resp(cat, msg, to) == [cat |-> cat, msg |-> msg, to |-> to]

NoResp == Resp("", "", "")

\* What a worker holds of a request: the operation, the session it came from,
\* its arguments (idx, email) and the handler's locals (df, and msg, the message
\* add_subscriber returns).  The other fields are history: jid names the job an
\* add-job appends, snap is the file as it was when the request loaded it,
\* readOk whether that load succeeded, saved what its save returned ("none"
\* while no save was tried), auth whether the session had posted a correct
\* login since its last logout when the request arrived.
Req(op, s, idx, email) ==
    [pc |-> "save", op |-> op, sess |-> s, idx |-> idx, email |-> email, msg |-> "",
     df |-> <<>>, jid |-> 0, snap |-> <<>>, readOk |-> TRUE, saved |-> "none",
     auth |-> FALSE, res |-> NoResp]

\* The request is answered: the worker is free and drops the handler's locals;
\* res is the response
Reply(r, res) ==
    [r EXCEPT !.pc = "idle", !.res = res, !.df = <<>>, !.snap = <<>>, !.idx = 0,
              !.msg = "", !.jid = 0, !.sess = "", !.readOk = TRUE, !.auth = FALSE]

SaveResult(writeOk) == IF writeOk THEN "ok" ELSE "failed"

\* What a read-only handler (or login, logout) answered: items are the rows it
\* returned, count the number of active subscribers it shows, granted whether
\* it got past the admin check.  History: src is the jobs file the rows were
\* read from, auth as in Req.
Page(kind, s, granted, items, res) ==
    [kind |-> kind, sess |-> s, granted |-> granted, items |-> items, count |-> 0,
     res |-> res, src |-> <<>>, auth |-> FALSE]

NoPage == Page("none", "", FALSE, <<>>, NoResp)

\* The admin flag of whichever session holds one
IsAdminAnySession(s) == \E t \in Sessions : session[t]

\* session.get('is_admin', False)
IsAdmin(s) == session[s]

-----------------------------------------------------------------------------
(* Inputs *)

Txt_dev  == <<"d","e","v">>
Txt_qa   == <<"q","a">>
Txt_Acme == <<"A","c">>
Txt_Go   == <<"G","o">>

Form(position, company, skills, salary) ==
    [position |-> position, company |-> company, location |-> <<>>,
     skills |-> skills, salary |-> salary, link |-> <<>>]

\* Posted add-job forms that pass validation: a padded position with a salary
\* of "50", and a salary of "N/A"
ValidForms ==
    { Form(<<" ">> \o Txt_dev \o <<" ">>, Txt_Acme, Txt_Go, <<"5","0">>),
      Form(Txt_qa, Txt_Acme, <<>>, <<"N","/","A">>) }

\* Forms that fail it: a blank position, a missing company
InvalidForms ==
    { Form(<<" ", " ">>, Txt_Acme, <<>>, <<>>),
      Form(Txt_dev, <<>>, <<>>, <<>>) }

Forms == ValidForms \cup InvalidForms

Methods == {"GET", "POST"}

\* Indices a delete request may carry in its URL
JobIndices == (-1)..MaxAdds

-----------------------------------------------------------------------------
(* Job repository *)

\* new_job of add_job: every field stripped, created_at stamped by the server.
\* jid is not a column: it names the job in the history variables.
new_job(form, t, jid) ==
    [position |-> Strip(form.position), company |-> Strip(form.company),
     location |-> Strip(form.location), skills |-> Strip(form.skills),
     salary |-> Strip(form.salary), link |-> Strip(form.link),
     created_at |-> t, jid |-> jid]

\* pd.concat([df, pd.DataFrame([row])], ignore_index=True)
ConcatRow(df, row) == Append(df, row)

\* df.drop(df.index[job_index]).reset_index(drop=True), job_index counted from 0
DropRow(df, job_index) ==
    [k \in 1..(Len(df) - 1) |-> IF k <= job_index THEN df[k] ELSE df[k + 1]]

\* The test of delete_job for "Job not found!"
JobNotFound(df, job_index) ==
    df = <<>> \/ job_index >= Len(df) \/ job_index < 0

\* get_active_subscribers(): e-mails of the rows whose is_active is True
get_active_subscribers(file, readOk) ==
    LET df     == load_subscribers(file, readOk)
        active == SelectSeq(df, LAMBDA r : r.is_active = TRUE)
    IN  [i \in DOMAIN active |-> active[i].email]

\* notify_subscribers(job_data): TRUE when it returns, FALSE when it raises.
\* With no active subscriber it returns before the print; the print is its
\* only statement that can fail.
notify_subscribers(file, readOk, printOk) ==
    get_active_subscribers(file, readOk) = <<>> \/ printOk

Jids(table) == {table[i].jid : i \in DOMAIN table}

-----------------------------------------------------------------------------
(* Initial state: both files exist and hold their header only (initialize_csv
   at start-up), nobody is logged in *)

Init ==
    /\ jobsFile = <<>>
    /\ subsFile = <<>>
    /\ session = [s \in Sessions |-> FALSE]
    /\ now = 0
    /\ proc = [p \in Procs |-> Reply(Req("none", "", 0, <<>>), NoResp)]
    /\ page = NoPage
    /\ nextJid = 0
    /\ added = <<>>
    /\ deleted = {}
    /\ lastAuth = [s \in Sessions |-> "none"]
    /\ okSince = [s \in Sessions |-> FALSE]

\* The server clock advances
Tick ==
    /\ now < MaxClock
    /\ now' = now + 1
    /\ UNCHANGED <<jobsFile, subsFile, session, proc, page, nextJid, added, deleted,
                   lastAuth, okSince>>

-----------------------------------------------------------------------------
(* /add *)

\* add_job up to the save: the admin check, the load, validation, the append
AddJobBegin(p, s, method, form, readOk) ==
    /\ proc[p].pc = "idle"
    /\ LET r == [Req("add", s, 0, <<>>) EXCEPT !.auth = okSince[s]]
       IN
       IF ~IsAdmin(s)
       THEN /\ proc' = [proc EXCEPT ![p] = Reply(r,
                   Resp("error", "You must be logged in as admin to add jobs!", "view_jobs"))]
            /\ UNCHANGED nextJid
       ELSE IF method = "GET"
       THEN /\ proc' = [proc EXCEPT ![p] = Reply(r, Resp("", "", "add_job.html"))]
            /\ UNCHANGED nextJid
       ELSE LET df == load_jobs(jobsFile, readOk)
                nj == new_job(form, now, nextJid + 1)
                rl == [r EXCEPT !.snap = jobsFile, !.readOk = readOk]
            IN  IF nj.position = <<>> \/ nj.company = <<>>
                THEN /\ proc' = [proc EXCEPT ![p] = Reply(rl,
                            Resp("error", "Position and Company are required fields!",
                                 "add_job.html"))]
                     /\ UNCHANGED nextJid
                ELSE /\ nextJid < MaxAdds
                     /\ proc' = [proc EXCEPT ![p] =
                            [rl EXCEPT !.jid = nj.jid, !.df = ConcatRow(df, nj)]]
                     /\ nextJid' = nextJid + 1
    /\ UNCHANGED <<jobsFile, subsFile, session, now, page, added, deleted, lastAuth, okSince>>

\* add_job from the save on: save_jobs, notify_subscribers, the flash
AddJobSave(p, writeOk, subsReadOk, printOk) ==
    /\ proc[p].pc = "save" /\ proc[p].op = "add"
    /\ jobsFile' = save_jobs(jobsFile, proc[p].df, writeOk)
    /\ added' = IF writeOk THEN Append(added, proc[p].jid) ELSE added
    /\ proc' = [proc EXCEPT ![p] = Reply([@ EXCEPT !.saved = SaveResult(writeOk)],
            IF ~writeOk
            THEN Resp("error", "Error adding job!", "add_job.html")
            ELSE IF notify_subscribers(subsFile, subsReadOk, printOk)
            THEN Resp("success", "Job successfully added!", "admin_dashboard")
            ELSE Resp("error", "Error adding job: exception", "add_job.html"))]
    /\ UNCHANGED <<subsFile, session, now, nextJid, deleted, lastAuth, okSince>>
    /\ page' = NoPage

-----------------------------------------------------------------------------
(* /delete/<int:job_index> *)

\* delete_job up to the save.  The int converter of the route takes no sign:
\* a negative index matches no route and is answered by the 404 handler.
DeleteJobBegin(p, s, job_index, readOk) ==
    /\ proc[p].pc = "idle"
    /\ LET r  == [Req("delete", s, job_index, <<>>) EXCEPT !.auth = okSince[s]]
           df == load_jobs(jobsFile, readOk)
           rl == [r EXCEPT !.snap = jobsFile, !.readOk = readOk]
       IN
       proc' = [proc EXCEPT ![p] =
           IF job_index < 0
           THEN Reply(r, Resp("error", "Page not found!", "view_jobs"))
           ELSE IF ~IsAdmin(s)
           THEN Reply(r, Resp("error", "You must be logged in as admin to delete jobs!",
                              "view_jobs"))
           ELSE IF JobNotFound(df, job_index)
           THEN Reply(rl, Resp("error", "Job not found!", "admin_dashboard"))
           ELSE [rl EXCEPT !.df = DropRow(df, job_index)]]
    /\ UNCHANGED <<jobsFile, subsFile, session, now, page, nextJid, added, deleted,
                   lastAuth, okSince>>

\* delete_job from the save on
DeleteJobSave(p, writeOk) ==
    /\ proc[p].pc = "save" /\ proc[p].op = "delete"
    /\ jobsFile' = save_jobs(jobsFile, proc[p].df, writeOk)
    /\ deleted' = IF writeOk THEN deleted \cup {proc[p].snap[proc[p].idx + 1].jid}
                  ELSE deleted
    /\ proc' = [proc EXCEPT ![p] = Reply([@ EXCEPT !.saved = SaveResult(writeOk)],
            IF writeOk
            THEN Resp("success", "Job successfully deleted!", "admin_dashboard")
            ELSE Resp("error", "Error deleting job!", "admin_dashboard"))]
    /\ UNCHANGED <<subsFile, session, now, nextJid, added, lastAuth, okSince>>
    /\ page' = NoPage

-----------------------------------------------------------------------------
(* /login and /logout *)

Usernames == { ADMIN_USERNAME, <<" ">> \o ADMIN_USERNAME, <<"b","o","b">> }
Passwords == { ADMIN_PASSWORD, <<"x">> }

\* The comparison of login: the username stripped, the password as typed
login_check(username, password) ==
    Strip(username) = ADMIN_USERNAME /\ password = ADMIN_PASSWORD

\* login.  A session that is already admin is sent to the dashboard before
\* the form is looked at.
login(s, method, username, password) ==
    /\ session' = [session EXCEPT ![s] =
            IF IsAdmin(s) THEN TRUE
            ELSE IF method = "POST" /\ login_check(username, password) THEN TRUE
            ELSE @]
    /\ page' = Page("login", s, TRUE, <<>>,
            IF IsAdmin(s) THEN Resp("", "", "admin_dashboard")
            ELSE IF method = "GET" THEN Resp("", "", "login.html")
            ELSE IF login_check(username, password)
            THEN Resp("success", "Successfully logged in as admin!", "admin_dashboard")
            ELSE Resp("error", "Invalid username or password!", "login.html"))
    /\ lastAuth' = [lastAuth EXCEPT ![s] =
            IF method = "GET" THEN @
            ELSE IF Strip(username) = <<"a","d","m","i","n">>
                    /\ password = <<"a","d","m","i","n","1","2","3">>
            THEN "login_ok" ELSE "login_bad"]
    /\ okSince' = [okSince EXCEPT ![s] =
            @ \/ (/\ method = "POST"
                  /\ Strip(username) = <<"a","d","m","i","n">>
                  /\ password = <<"a","d","m","i","n","1","2","3">>)]
    /\ UNCHANGED <<jobsFile, subsFile, now, proc, nextJid, added, deleted>>

\* logout: session.pop('is_admin', None)
logout(s) ==
    /\ session' = [session EXCEPT ![s] = FALSE]
    /\ page' = Page("logout", s, TRUE, <<>>,
                    Resp("success", "Successfully logged out!", "view_jobs"))
    /\ lastAuth' = [lastAuth EXCEPT ![s] = "logout"]
    /\ okSince' = [okSince EXCEPT ![s] = FALSE]
    /\ UNCHANGED <<jobsFile, subsFile, now, proc, nextJid, added, deleted>>

-----------------------------------------------------------------------------
(* Read-only views *)

PAGE_SIZE == 10

Queries == { <<>>, <<"g">>, <<"A","C">>, <<"z">> }

\* A DataFrame's rows with the index label each carries (0, 1, ... as read)
Indexed(df) == [i \in DOMAIN df |-> [index |-> i - 1, row |-> df[i]]]

\* The mask of view_jobs: q in position, company or skills, ignoring case
search(idf, q) ==
    SelectSeq(idf, LAMBDA e : \/ Contains(e.row.position, q)
                              \/ Contains(e.row.company, q)
                              \/ Contains(e.row.skills, q))

\* sort_values('created_at', ascending=False): the orders it may return, one
\* for each way of placing rows with equal timestamps
sort_values(idf) ==
    LET n     == Len(idf)
        perms == {f \in [1..n -> 1..n] : \A i, j \in 1..n : i # j => f[i] # f[j]}
        ok(f) == \A i, j \in 1..n :
                    i < j => idf[f[i]].row.created_at >= idf[f[j]].row.created_at
    IN  { [i \in 1..n |-> idf[f[i]]] : f \in {g \in perms : ok(g)} }

\* df.head(n)
head(idf, n) == SubSeq(idf, 1, IF Len(idf) < n THEN Len(idf) ELSE n)

\* Shown with the place on the page taken for the index
ShownByPlace(idf) == [i \in DOMAIN idf |-> [index |-> i - 1, jid |-> idf[i].row.jid]]

\* What a page shows of a job row: the index it carries and which job it is
Shown(idf) == [i \in DOMAIN idf |-> [index |-> idf[i].index, jid |-> idf[i].row.jid]]

\* active subscriber count of the pages
active_count(df) == Cardinality({i \in DOMAIN df : df[i].is_active = TRUE})

\* view_jobs: search, recency sort, the first ten
view_jobs(s, query, readOk, subsOk) ==
    /\ LET df   == Indexed(load_jobs(jobsFile, readOk))
           q    == Strip(query)
           hits == IF q # <<>> /\ df # <<>> THEN search(df, q) ELSE df
       IN  \E sorted \in sort_values(hits) :
              page' = [Page("view_jobs", s, TRUE, Shown(head(sorted, PAGE_SIZE)),
                            Resp("", "", "jobs.html"))
                       EXCEPT !.src = jobsFile, !.auth = okSince[s],
                              !.count = active_count(load_subscribers(subsFile, subsOk))]
    /\ UNCHANGED <<jobsFile, subsFile, session, now, proc, nextJid, added, deleted,
                   lastAuth, okSince>>

\* admin_dashboard: every job, most recent first, each with its index label
admin_dashboard(s, readOk, subsOk) ==
    /\ IF ~IsAdmin(s)
       THEN page' = [Page("admin_dashboard", s, FALSE, <<>>,
                          Resp("error",
                               "You must be logged in as admin to access the dashboard!",
                               "login"))
                     EXCEPT !.auth = okSince[s]]
       ELSE \E sorted \in sort_values(Indexed(load_jobs(jobsFile, readOk))) :
              page' = [Page("admin_dashboard", s, TRUE, Shown(sorted),
                            Resp("", "", "admin_dashboard.html"))
                       EXCEPT !.src = jobsFile, !.auth = okSince[s],
                              !.count = active_count(load_subscribers(subsFile, subsOk))]
    /\ UNCHANGED <<jobsFile, subsFile, session, now, proc, nextJid, added, deleted,
                   lastAuth, okSince>>

\* export_csv: the whole table in stored order, or a warning when it is empty
export_csv(s, readOk) ==
    /\ LET df == Indexed(load_jobs(jobsFile, readOk))
       IN  page' = [ (IF ~IsAdmin(s)
                      THEN Page("export_csv", s, FALSE, <<>>,
                                Resp("error", "You must be logged in as admin to export jobs!",
                                     "view_jobs"))
                      ELSE IF df = <<>>
                      THEN Page("export_csv", s, TRUE, <<>>,
                                Resp("warning", "No jobs to export!", "admin_dashboard"))
                      ELSE Page("export_csv", s, TRUE, Shown(df), Resp("", "", "text/csv")))
                     EXCEPT !.src = jobsFile, !.auth = okSince[s]]
    /\ UNCHANGED <<jobsFile, subsFile, session, now, proc, nextJid, added, deleted,
                   lastAuth, okSince>>

-----------------------------------------------------------------------------
(* Subscriber repository *)

LocalChars  == Letters \cup Digits \cup {".", "_", "%", "+", "-"}
DomainChars == Letters \cup Digits \cup {".", "-"}

\* is_valid_email: ^[a-zA-Z0-9._%+-]+@[a-zA-Z0-9.-]+\.[a-zA-Z]{2,}$
is_valid_email(email) ==
    \E a, d \in DOMAIN email :
        /\ email[a] = "@" /\ email[d] = "."
        /\ 1 < a /\ a + 1 < d /\ d + 2 <= Len(email)
        /\ \A i \in 1..(a - 1) : email[i] \in LocalChars
        /\ \A i \in (a + 1)..(d - 1) : email[i] \in DomainChars
        /\ \A i \in (d + 1)..Len(email) : email[i] \in Letters

Mail_a == <<"a","@","b",".","c","o">>
Mail_c == <<"c","@","b",".","c","o">>

\* Posted addresses: two plain ones, one in capitals with a trailing blank,
\* one without a top-level domain, none
ValidEmails == { Mail_a, Mail_c, <<"A","@","B",".","c","o"," ">> }

Emails == ValidEmails \cup { <<"a","@","b">>, <<>> }

\* Rows of df whose e-mail, lower-cased, is email.lower()
Matching(df, email) == {i \in DOMAIN df : Lower(df[i].email) = Lower(email)}

\* add_subscriber without the look-up of the address: a row is always appended
add_subscriber_append(df, email, t) ==
    [df |-> ConcatRow(df, [email |-> Lower(email), subscribed_at |-> t,
                           is_active |-> TRUE]),
     msg |-> "Successfully subscribed to job notifications!",
     save |-> TRUE]

\* add_subscriber that resubscribes by appending a fresh active row
add_subscriber_readd(df, email, t) ==
    IF df # <<>> /\ Matching(df, email) # {}
          /\ df[SetMin(Matching(df, email))].is_active = TRUE
    THEN [df |-> df, msg |-> "This email is already subscribed!", save |-> FALSE]
    ELSE [df |-> ConcatRow(df, [email |-> Lower(email), subscribed_at |-> t,
                                is_active |-> TRUE]),
          msg |-> IF df # <<>> /\ Matching(df, email) # {}
                  THEN "Successfully resubscribed to job notifications!"
                  ELSE "Successfully subscribed to job notifications!",
          save |-> TRUE]

\* add_subscriber(email) between its load and its save: the table it would
\* save, the message it returns, and whether it saves at all
add_subscriber(df, email, t) ==
    LET existing == Matching(df, email)
    IN  IF df # <<>> /\ existing # {}
        THEN IF df[SetMin(existing)].is_active = TRUE
             THEN [df |-> df, msg |-> "This email is already subscribed!", save |-> FALSE]
             ELSE [df |-> [i \in DOMAIN df |->
                              IF i \in existing
                              THEN [df[i] EXCEPT !.is_active = TRUE, !.subscribed_at = t]
                              ELSE df[i]],
                   msg |-> "Successfully resubscribed to job notifications!",
                   save |-> TRUE]
        ELSE [df |-> ConcatRow(df, [email |-> Lower(email), subscribed_at |-> t,
                                    is_active |-> TRUE]),
              msg |-> "Successfully subscribed to job notifications!",
              save |-> TRUE]

\* The table unsubscribe saves: every matching row marked inactive
deactivate(df, email) ==
    [i \in DOMAIN df |->
        IF Lower(df[i].email) = email THEN [df[i] EXCEPT !.is_active = FALSE] ELSE df[i]]

\* subscribe up to the save of add_subscriber
SubscribeBegin(p, rawEmail, readOk) ==
    /\ proc[p].pc = "idle"
    /\ LET email == Lower(Strip(rawEmail))
           r     == Req("subscribe", "", 0, email)
           plan  == add_subscriber(load_subscribers(subsFile, readOk), email, now)
           rl    == [r EXCEPT !.snap = subsFile, !.readOk = readOk,
                              !.df = plan.df, !.msg = plan.msg]
       IN  proc' = [proc EXCEPT ![p] =
               IF email = <<>> \/ ~is_valid_email(email)
               THEN Reply(r, Resp("error", "Please enter a valid email address!", "view_jobs"))
               ELSE IF ~plan.save
               THEN Reply(rl, Resp("warning", plan.msg, "view_jobs?subscribed=exists"))
               ELSE rl]
    /\ UNCHANGED <<jobsFile, subsFile, session, now, page, nextJid, added, deleted,
                   lastAuth, okSince>>

\* subscribe from save_subscribers on: success is what the save returned
SubscribeSave(p, writeOk) ==
    /\ proc[p].pc = "save" /\ proc[p].op = "subscribe"
    /\ subsFile' = save_subscribers(subsFile, proc[p].df, writeOk)
    /\ proc' = [proc EXCEPT ![p] = Reply([@ EXCEPT !.saved = SaveResult(writeOk)],
            IF writeOk
            THEN Resp("success", proc[p].msg, "view_jobs?subscribed=success")
            ELSE Resp("warning", proc[p].msg, "view_jobs?subscribed=exists"))]
    /\ UNCHANGED <<jobsFile, session, now, nextJid, added, deleted, lastAuth, okSince>>
    /\ page' = NoPage

\* unsubscribe up to the save
UnsubscribeBegin(p, method, rawEmail, readOk) ==
    /\ proc[p].pc = "idle"
    /\ LET email == Lower(Strip(rawEmail))
           r     == Req("unsubscribe", "", 0, email)
           df    == load_subscribers(subsFile, readOk)
           rl    == [r EXCEPT !.snap = subsFile, !.readOk = readOk]
       IN  proc' = [proc EXCEPT ![p] =
               IF method = "GET"
               THEN Reply([r EXCEPT !.email = <<>>], Resp("", "", "unsubscribe.html"))
               ELSE IF email = <<>> \/ ~is_valid_email(email)
               THEN Reply(r, Resp("error", "Please enter a valid email address!",
                                  "unsubscribe.html"))
               ELSE IF df = <<>> \/ \A i \in DOMAIN df : Lower(df[i].email) # email
               THEN Reply(rl, Resp("error", "Email address not found in subscribers list!",
                                   "unsubscribe.html"))
               ELSE [rl EXCEPT !.df = deactivate(df, email)]]
    /\ UNCHANGED <<jobsFile, subsFile, session, now, page, nextJid, added, deleted,
                   lastAuth, okSince>>

\* unsubscribe from the save on
UnsubscribeSave(p, writeOk) ==
    /\ proc[p].pc = "save" /\ proc[p].op = "unsubscribe"
    /\ subsFile' = save_subscribers(subsFile, proc[p].df, writeOk)
    /\ proc' = [proc EXCEPT ![p] = Reply([@ EXCEPT !.saved = SaveResult(writeOk)],
            IF writeOk
            THEN Resp("success", "Successfully unsubscribed from job notifications!",
                      "unsubscribe.html")
            ELSE Resp("error", "Error unsubscribing. Please try again.", "unsubscribe.html"))]
    /\ UNCHANGED <<jobsFile, session, now, nextJid, added, deleted, lastAuth, okSince>>
    /\ page' = NoPage

\* sort_values('subscribed_at', ascending=False) of view_subscribers
sort_subscribers(df) ==
    LET n     == Len(df)
        perms == {f \in [1..n -> 1..n] : \A i, j \in 1..n : i # j => f[i] # f[j]}
        ok(f) == \A i, j \in 1..n : i < j => df[f[i]].subscribed_at >= df[f[j]].subscribed_at
    IN  { [i \in 1..n |-> df[f[i]]] : f \in {g \in perms : ok(g)} }

\* view_subscribers: every subscriber row, most recent first
view_subscribers(s, readOk) ==
    /\ IF ~IsAdmin(s)
       THEN page' = [Page("view_subscribers", s, FALSE, <<>>,
                          Resp("error", "You must be logged in as admin to view subscribers!",
                               "login"))
                     EXCEPT !.auth = okSince[s]]
       ELSE \E sorted \in sort_subscribers(load_subscribers(subsFile, readOk)) :
              page' = [Page("view_subscribers", s, TRUE, sorted,
                            Resp("", "", "subscribers.html"))
                       EXCEPT !.auth = okSince[s], !.count = active_count(sorted)]
    /\ UNCHANGED <<jobsFile, subsFile, session, now, proc, nextJid, added, deleted,
                   lastAuth, okSince>>

\* export_subscribers: the whole table, or a warning when it is empty
export_subscribers(s, readOk) ==
    /\ LET df == load_subscribers(subsFile, readOk)
       IN  page' = [ (IF ~IsAdmin(s)
                      THEN Page("export_subscribers", s, FALSE, <<>>,
                                Resp("error",
                                     "You must be logged in as admin to export subscribers!",
                                     "view_jobs"))
                      ELSE IF df = <<>>
                      THEN Page("export_subscribers", s, TRUE, <<>>,
                                Resp("warning", "No subscribers to export!",
                                     "view_subscribers"))
                      ELSE Page("export_subscribers", s, TRUE, df, Resp("", "", "text/csv")))
                     EXCEPT !.auth = okSince[s]]
    /\ UNCHANGED <<jobsFile, subsFile, session, now, proc, nextJid, added, deleted,
                   lastAuth, okSince>>

-----------------------------------------------------------------------------
(* Specifications *)

AllIdle == \A p \in Procs : proc[p].pc = "idle"

\* The jobs handlers, one request at a time
NextJobs ==
    \/ Tick
    \/ AllIdle /\ \E w \in Passwords : login("s1", "POST", ADMIN_USERNAME, w)
    \/ AllIdle /\ \E m \in Methods, f \in Forms, ok \in BOOLEAN :
                     AddJobBegin("p1", "s1", m, f, ok)
    \/ \E w, r, pr \in BOOLEAN : AddJobSave("p1", w, r, pr)
    \/ AllIdle /\ \E i \in JobIndices, ok \in BOOLEAN : DeleteJobBegin("p1", "s1", i, ok)
    \/ \E w \in BOOLEAN : DeleteJobSave("p1", w)
    \/ AllIdle /\ \E q \in Queries, ok, sok \in BOOLEAN : view_jobs("s1", q, ok, sok)
    \/ AllIdle /\ \E ok, sok \in BOOLEAN : admin_dashboard("s1", ok, sok)
    \/ AllIdle /\ \E ok \in BOOLEAN : export_csv("s1", ok)

SpecJobs == Init /\ [][NextJobs]_vars

\* Adding, listing on the dashboard and deleting, one request at a time
NextDash ==
    \/ Tick
    \/ AllIdle /\ login("s1", "POST", ADMIN_USERNAME, ADMIN_PASSWORD)
    \/ AllIdle /\ \E f \in ValidForms : AddJobBegin("p1", "s1", "POST", f, TRUE)
    \/ \E w \in BOOLEAN : AddJobSave("p1", w, TRUE, TRUE)
    \/ AllIdle /\ \E i \in JobIndices, ok \in BOOLEAN : DeleteJobBegin("p1", "s1", i, ok)
    \/ \E w \in BOOLEAN : DeleteJobSave("p1", w)
    \/ AllIdle /\ \E ok \in BOOLEAN : admin_dashboard("s1", ok, TRUE)

SpecDash == Init /\ [][NextDash]_vars

\* Adding jobs while a visitor subscribes and unsubscribes, one request at a
\* time
NextNotify ==
    \/ AllIdle /\ login("s1", "POST", ADMIN_USERNAME, ADMIN_PASSWORD)
    \/ AllIdle /\ \E f \in Forms, ok \in BOOLEAN : AddJobBegin("p1", "s1", "POST", f, ok)
    \/ \E w, r, pr \in BOOLEAN : AddJobSave("p1", w, r, pr)
    \/ AllIdle /\ \E ok \in BOOLEAN : SubscribeBegin("p1", Mail_a, ok)
    \/ \E w \in BOOLEAN : SubscribeSave("p1", w)
    \/ AllIdle /\ \E ok \in BOOLEAN : UnsubscribeBegin("p1", "POST", Mail_a, ok)
    \/ \E w \in BOOLEAN : UnsubscribeSave("p1", w)

SpecNotify == Init /\ [][NextNotify]_vars

\* Visitors subscribing and unsubscribing, one request at a time
NextMail ==
    \/ Tick
    \/ AllIdle /\ \E e \in Emails, ok \in BOOLEAN : SubscribeBegin("p1", e, ok)
    \/ \E w \in BOOLEAN : SubscribeSave("p1", w)
    \/ AllIdle /\ \E m \in Methods, e \in Emails, ok \in BOOLEAN :
                     UnsubscribeBegin("p1", m, e, ok)
    \/ \E w \in BOOLEAN : UnsubscribeSave("p1", w)

SpecMail == Init /\ [][NextMail]_vars

\* Visitors subscribing and unsubscribing, the requests of two workers
\* interleaving their loads and saves
NextSubs ==
    \/ \E p \in Procs, e \in ValidEmails, ok \in BOOLEAN : SubscribeBegin(p, e, ok)
    \/ \E p \in Procs, w \in BOOLEAN : SubscribeSave(p, w)
    \/ \E p \in Procs, e \in ValidEmails, ok \in BOOLEAN :
          UnsubscribeBegin(p, "POST", e, ok)
    \/ \E p \in Procs, w \in BOOLEAN : UnsubscribeSave(p, w)

SpecSubs == Init /\ [][NextSubs]_vars

\* Two workers adding and deleting jobs, their loads and saves interleaving
NextRace ==
    \/ login("s1", "POST", ADMIN_USERNAME, ADMIN_PASSWORD)
    \/ nextJid < MaxRaceAdds
          /\ \E p \in Procs, f \in ValidForms : AddJobBegin(p, "s1", "POST", f, TRUE)
    \/ \E p \in Procs, w \in BOOLEAN : AddJobSave(p, w, TRUE, TRUE)
    \/ \E p \in Procs, i \in JobIndices : DeleteJobBegin(p, "s1", i, TRUE)
    \/ \E p \in Procs, w \in BOOLEAN : DeleteJobSave(p, w)

SpecRace == Init /\ [][NextRace]_vars

\* Two clients logging in and out and using the admin pages, one request at a
\* time
NextAuth ==
    \/ AllIdle /\ \E s \in Sessions, m \in Methods, u \in Usernames, w \in Passwords :
                     login(s, m, u, w)
    \/ AllIdle /\ \E s \in Sessions : logout(s)
    \/ AllIdle /\ nextJid < MaxAuthAdds
          /\ \E s \in Sessions, m \in Methods, f \in ValidForms :
                 AddJobBegin("p1", s, m, f, TRUE)
    \/ \E w \in BOOLEAN : AddJobSave("p1", w, TRUE, TRUE)
    \/ AllIdle /\ \E s \in Sessions, i \in JobIndices : DeleteJobBegin("p1", s, i, TRUE)
    \/ \E w \in BOOLEAN : DeleteJobSave("p1", w)
    \/ AllIdle /\ \E s \in Sessions : admin_dashboard(s, TRUE, TRUE)
    \/ AllIdle /\ \E s \in Sessions : export_csv(s, TRUE)
    \/ AllIdle /\ \E s \in Sessions : view_subscribers(s, TRUE)
    \/ AllIdle /\ \E s \in Sessions : export_subscribers(s, TRUE)
    \/ AllIdle /\ SubscribeBegin("p1", Mail_a, TRUE)
    \/ SubscribeSave("p1", TRUE)

SpecAuth == Init /\ [][NextAuth]_vars

-----------------------------------------------------------------------------
(* Properties *)

JidSeq(table) == [i \in DOMAIN table |-> table[i].jid]

\* seq without its entries equal to x
Without(seq, x) == SelectSeq(seq, LAMBDA y : y # x)

\* The dashboard is on screen, rendered from the jobs file as it still is
DashboardCurrent ==
    /\ page.kind = "admin_dashboard" /\ page.granted
    /\ page.src = jobsFile

\* Every job the dashboard shows carries the position it has in the stored file,
\* the jobs are shown most recent first, and a dashboard that shows any job
\* shows each stored job once
DashboardIndexInv ==
    (page.kind = "admin_dashboard" /\ page.granted) =>
        /\ \A k \in DOMAIN page.items :
              /\ page.items[k].index \in 0..(Len(page.src) - 1)
              /\ page.src[page.items[k].index + 1].jid = page.items[k].jid
        /\ \A k, m \in DOMAIN page.items :
              k < m => page.src[page.items[k].index + 1].created_at
                         >= page.src[page.items[m].index + 1].created_at
        /\ page.items # <<>> =>
              /\ Len(page.items) = Len(page.src)
              /\ \A k, m \in DOMAIN page.items :
                    k # m => page.items[k].jid # page.items[m].jid

\* A delete request that carries an index shown on the current dashboard, and
\* whose save succeeds, removes the job shown with that index and leaves the
\* other jobs in their order
DashboardDeleteStep ==
    \A p \in Procs :
        ( /\ proc[p].pc = "save" /\ proc[p].op = "delete"
          /\ proc'[p].saved = "ok"
          /\ DashboardCurrent
          /\ proc[p].snap = jobsFile )
        => \A k \in DOMAIN page.items :
              page.items[k].index = proc[p].idx =>
                 /\ page.items[k].jid \in Jids(jobsFile)
                 /\ JidSeq(jobsFile') = Without(JidSeq(jobsFile), page.items[k].jid)

\* C10: each job on the recency-sorted admin dashboard carries as its index its
\* position in the stored table, so that, with no other change of the jobs file
\* in between, delete-job with that index removes exactly the job displayed
\* with it.
C10_DashboardIndexDeletes == []DashboardIndexInv /\ [][DashboardDeleteStep]_vars

\* A delete is about to save, its index was taken from a dashboard entry that
\* is not shown at its stored position, and the table it saves lacks that job
C10_Witness ==
    \E p \in Procs :
        /\ proc[p].pc = "save" /\ proc[p].op = "delete"
        /\ DashboardCurrent /\ proc[p].snap = jobsFile
        /\ \E k \in DOMAIN page.items :
              /\ page.items[k].index = proc[p].idx
              /\ k # proc[p].idx + 1
              /\ page.items[k].jid \notin Jids(proc[p].df)
              /\ Len(proc[p].df) = Len(jobsFile) - 1

-----------------------------------------------------------------------------
(* delete_at *)

\* T with exactly the row at position i (counted from 0) removed
RemoveAt(T, i) == SubSeq(T, 1, i) \o SubSeq(T, i + 2, Len(T))

\* C4: delete-job with an index outside 0..|T|-1 is rejected and leaves the
\* stored table T unchanged; with an index inside, the table stored afterwards
\* is T with exactly that row removed, every other row keeping its content and
\* its relative order.  (Stated for a request of a logged-in admin whose load
\* and save succeed.)
C4_DeleteAtExact ==
    [][\A p \in Procs :
         /\ ( /\ proc[p].pc = "idle" /\ proc'[p] # proc[p] /\ proc'[p].op = "delete"
              /\ proc'[p].pc = "save" )
            => /\ proc'[p].idx \in 0..(Len(jobsFile) - 1)
               /\ jobsFile' = jobsFile
         /\ ( /\ proc[p].pc = "save" /\ proc[p].op = "delete"
              /\ proc[p].readOk /\ proc'[p].saved = "ok"
              /\ proc[p].snap = jobsFile )
            => jobsFile' = RemoveAt(proc[p].snap, proc[p].idx)
      ]_vars

-----------------------------------------------------------------------------
(* Failures *)

\* Every row of old is a row of new, unaltered
RowsKept(old, new) == \A i \in DOMAIN old : \E j \in DOMAIN new : new[j] = old[i]

\* This step answers a request of worker p in which something failed: its load,
\* its save, or anything reported as an error
FailedRequestStep(p) ==
    /\ proc'[p] # proc[p] /\ proc'[p].pc = "idle"
    /\ proc'[p].op \in {"add", "delete", "subscribe", "unsubscribe"}
    /\ \/ proc[p].pc = "save" /\ ~proc[p].readOk
       \/ proc'[p].saved = "failed"
       \/ proc'[p].res.cat = "error"

\* C5: a request of add-job, delete-job, subscribe or unsubscribe in which a
\* failure occurs neither loses nor alters the rows stored before it.
C5_FailurePreservesRows ==
    [][\A p \in Procs :
         FailedRequestStep(p) =>
            /\ RowsKept(jobsFile, jobsFile')
            /\ RowsKept(subsFile, subsFile')
      ]_vars

-----------------------------------------------------------------------------
(* Notification *)

\* C7: an add-job request of a logged-in admin with position and company whose
\* save succeeds stores the job and is reported as a successful creation,
\* whether the notification returns or raises.
C7_NotifyNeverFailsAdd ==
    \A p \in Procs :
        (proc[p].pc = "idle" /\ proc[p].op = "add" /\ proc[p].saved = "ok") =>
            /\ proc[p].res = Resp("success", "Job successfully added!", "admin_dashboard")
            /\ added # <<>> /\ added[Len(added)] \in Jids(jobsFile)

-----------------------------------------------------------------------------
(* Stored order *)

RECURSIVE WithoutAll(_, _)
\* seq without its entries that are in S
WithoutAll(seq, S) ==
    IF seq = <<>> THEN <<>>
    ELSE IF seq[1] \in S THEN WithoutAll(Tail(seq), S)
    ELSE <<seq[1]>> \o WithoutAll(Tail(seq), S)

\* C8: after any sequence of add-job, delete-job, listing, dashboard and export
\* requests, the rows of the stored jobs file are exactly the jobs added and
\* not yet deleted, in the order in which they were added.
C8_StoredIsInsertionOrder ==
    JidSeq(jobsFile) = WithoutAll(added, deleted)

-----------------------------------------------------------------------------
(* Subscribers *)

\* Rows of table whose address, lower-cased, is e
RowsOf(table, e) == {i \in DOMAIN table : Lower(table[i].email) = e}

\* C2: starting from an empty subscribers file, after any interleaving of
\* subscribe and unsubscribe requests the stored table has at most one active
\* row for each lower-cased address.
C2_OneActiveRowPerEmail ==
    \A i, j \in DOMAIN subsFile :
        ( /\ i # j
          /\ subsFile[i].is_active = TRUE /\ subsFile[j].is_active = TRUE )
        => Lower(subsFile[i].email) # Lower(subsFile[j].email)

\* A subscribe loaded the file while it was empty and is about to save its one
\* row, and meanwhile another request has stored an active row for the same
\* address
C2_Witness ==
    \E p \in Procs :
        /\ proc[p].pc = "save" /\ proc[p].op = "subscribe"
        /\ proc[p].readOk /\ proc[p].snap = <<>>
        /\ \E i \in DOMAIN subsFile :
              subsFile[i].email = proc[p].email /\ subsFile[i].is_active = TRUE

\* The step in which worker p takes a subscribe request with a valid address
SubscribeTaken(p) ==
    /\ proc[p].pc = "idle" /\ proc'[p] # proc[p] /\ proc'[p].op = "subscribe"
    /\ proc'[p].res.msg # "Please enter a valid email address!"

\* The three outcomes of subscribe on the table T it loaded, for address e
SubscribeOutcome(p) ==
    LET T  == IF proc'[p].readOk THEN subsFile ELSE <<>>
        e  == proc'[p].email
        df == proc'[p].df
    IN  /\ (\E i \in RowsOf(T, e) : T[i].is_active = TRUE) =>
              /\ proc'[p].pc = "idle" /\ proc'[p].saved = "none"
              /\ proc'[p].res.msg = "This email is already subscribed!"
              /\ subsFile' = subsFile
        /\ (RowsOf(T, e) # {} /\ \A i \in RowsOf(T, e) : T[i].is_active = FALSE) =>
              /\ proc'[p].pc = "save"
              /\ proc'[p].msg = "Successfully resubscribed to job notifications!"
              /\ Len(df) = Len(T)
              /\ \A i \in DOMAIN T :
                    IF i \in RowsOf(T, e)
                    THEN df[i] = [email |-> T[i].email, subscribed_at |-> now,
                                  is_active |-> TRUE]
                    ELSE df[i] = T[i]
        /\ RowsOf(T, e) = {} =>
              /\ proc'[p].pc = "save"
              /\ proc'[p].msg = "Successfully subscribed to job notifications!"
              /\ df = T \o <<[email |-> e, subscribed_at |-> now, is_active |-> TRUE]>>

\* A subscribe whose save succeeds stores the table it computed, reports the
\* message of its outcome, and leaves exactly one row for the address, active
SubscribeStored(p) ==
    ( /\ proc[p].pc = "save" /\ proc[p].op = "subscribe"
      /\ proc'[p].pc = "idle" /\ proc'[p].saved = "ok" )
    => /\ subsFile' = proc[p].df
       /\ proc'[p].res.msg = proc[p].msg
       /\ Cardinality(RowsOf(subsFile', proc[p].email)) = 1
       /\ \A i \in RowsOf(subsFile', proc[p].email) : subsFile'[i].is_active = TRUE

\* C3: subscribe(e) on a table with an active row for e answers "already
\* subscribed" and leaves the table; with only an inactive row it sets that
\* row active and resets its subscribed_at, the row count unchanged; with no
\* row it appends exactly one active row.  Subscribing again, or after an
\* unsubscribe, leaves exactly one row for the address, active.
C3_SubscribeOutcomes ==
    [][\A p \in Procs :
         /\ SubscribeTaken(p) => SubscribeOutcome(p)
         /\ SubscribeStored(p)
      ]_vars

\* A resubscription has been saved: the address had been unsubscribed, and its
\* one row is active again
C3_Witness ==
    \E p \in Procs :
        /\ proc[p].pc = "idle" /\ proc[p].op = "subscribe" /\ proc[p].saved = "ok"
        /\ proc[p].res.msg = "Successfully resubscribed to job notifications!"
        /\ Cardinality(RowsOf(subsFile, proc[p].email)) = 1
        /\ \A i \in RowsOf(subsFile, proc[p].email) : subsFile[i].is_active = TRUE

SuccessMessages ==
    { "Job successfully added!", "Job successfully deleted!",
      "Successfully subscribed to job notifications!",
      "Successfully resubscribed to job notifications!",
      "Successfully unsubscribed from job notifications!" }

\* C6: add-job, delete-job, subscribe and unsubscribe report success only if
\* the save returned success; when the save returns failure the request is
\* reported as a failed operation, never with a success message and never as
\* a different outcome.
C6_SaveResultChecked ==
    \A p \in Procs :
        (proc[p].pc = "idle"
            /\ proc[p].op \in {"add", "delete", "subscribe", "unsubscribe"}) =>
            /\ proc[p].res.cat = "success" => proc[p].saved = "ok"
            /\ proc[p].saved = "failed" =>
                  /\ proc[p].res.cat = "error"
                  /\ proc[p].res.msg \notin SuccessMessages
                  /\ proc[p].res.to # "view_jobs?subscribed=exists"

-----------------------------------------------------------------------------
(* Lost updates *)

\* A request saves a table it loaded before the file was last changed
StaleSave(p) ==
    /\ proc[p].pc = "save" /\ proc[p].op \in {"add", "delete"}
    /\ proc'[p].saved = "ok"
    /\ proc[p].snap # jobsFile

\* C9: when two mutating requests on the jobs file interleave their load and
\* save, the file afterwards reflects only the request that saved last: every
\* job stored since that request loaded is gone, every job deleted since is
\* back, and both requests report success.
C9_LastSaveWins ==
    [][\A p \in Procs :
         StaleSave(p) =>
            /\ \A j \in Jids(jobsFile) \ Jids(proc[p].snap) : j \notin Jids(jobsFile')
            /\ \A j \in Jids(proc[p].snap) \ Jids(jobsFile) :
                  j \in Jids(jobsFile') \/ j = proc[p].snap[proc[p].idx + 1].jid
            /\ proc'[p].res.cat = "success"
      ]_vars

\* Two add-job requests were both answered "Job successfully added!", nothing
\* was deleted, and the file holds only the job of the one that saved last
C9_Witness ==
    /\ \A p \in Procs :
          /\ proc[p].pc = "idle" /\ proc[p].op = "add" /\ proc[p].saved = "ok"
          /\ proc[p].res = Resp("success", "Job successfully added!", "admin_dashboard")
    /\ Len(added) = 2 /\ deleted = {}
    /\ JidSeq(jobsFile) = <<added[2]>>

-----------------------------------------------------------------------------
(* Authentication *)

ProtectedViews ==
    {"admin_dashboard", "export_csv", "view_subscribers", "export_subscribers"}

\* A session is admin exactly when it has posted a correct login since its
\* last logout
AdminIffLoggedIn == \A s \in Sessions : session[s] <=> okSince[s]

\* Data came back from a protected view only for such a session, and a
\* request of add-job or delete-job got past the admin check only for one
GatedInv ==
    /\ (page.kind \in ProtectedViews /\ page.granted) => page.auth
    /\ (page.kind \in ProtectedViews /\ ~page.granted) => page.items = <<>>
    /\ \A p \in Procs :
          (proc[p].pc = "save" /\ proc[p].op \in {"add", "delete"}) => proc[p].auth

\* The jobs file changes only in the save of such a request, and the answer to
\* a protected request leaves the subscribers file alone
GatedStep ==
    /\ jobsFile' # jobsFile =>
          \E p \in Procs :
             /\ proc[p].pc = "save" /\ proc[p].op \in {"add", "delete"}
             /\ proc[p].auth /\ proc'[p].pc = "idle"
    /\ \A p \in Procs :
          (proc'[p] # proc[p] /\ proc'[p].op \in {"add", "delete"}) =>
             subsFile' = subsFile
    /\ (page' # page /\ page'.kind \in ProtectedViews) =>
          jobsFile' = jobsFile /\ subsFile' = subsFile

\* C1, as claimed: a session is authenticated exactly when its most recent
\* login/logout event was a login that supplied the configured credentials.
C1_AdminIffLastEventLogin ==
    \A s \in Sessions : session[s] <=> (lastAuth[s] = "login_ok")

\* C1, amended: a session is authenticated exactly when it has posted a login
\* with the configured username and password since its last logout; add-job,
\* delete-job, the exports, the dashboard and the subscriber view change the
\* jobs file or return data only for an authenticated session, and after a
\* logout they are rejected and leave both files unchanged until the next
\* successful login.
C1_AuthenticationGating ==
    [](AdminIffLoggedIn /\ GatedInv) /\ [][GatedStep]_vars

\* A session that had logged in and then out asked for the jobs export while
\* jobs were stored, and was refused
C1_Witness ==
    /\ page.kind = "export_csv" /\ ~page.granted /\ page.items = <<>>
    /\ page.sess \in Sessions
    /\ lastAuth[page.sess] = "logout"
    /\ jobsFile # <<>>

====
